---- MODULE Spec2Model ----
(***************************************************************************)
(* Model of the phishing-URL feature extraction (features.py) and of the   *)
(* /predict request handler (app.py).                                      *)
(*                                                                         *)
(* Strings are sequences of one-character strings.  Offsets returned by    *)
(* PyFind / PyRFind are Python's 0-based offsets (-1 when not found), so   *)
(* the thresholds of the code appear unchanged.                            *)
(***************************************************************************)
EXTENDS Integers, Naturals, Sequences, FiniteSets, TLC

(***************************************************************************)
(* String helpers (Python str operations used by the code).                *)
(***************************************************************************)
\* s[i..j] with Python slice semantics on 1-based inclusive bounds
Slice(s, i, j) == SubSeq(s, i, j)

\* sub occurs in s starting at 1-based position i
OccursAt(s, sub, i) ==
  /\ i >= 1
  /\ i + Len(sub) - 1 <= Len(s)
  /\ \A k \in 1..Len(sub) : s[i + k - 1] = sub[k]

\* 1-based positions at which sub occurs in s
Occurrences(s, sub) == { i \in 1..(Len(s) + 1) : OccursAt(s, sub, i) }

\* Python: sub in s
Contains(s, sub) == \E i \in 1..(Len(s) + 1) : OccursAt(s, sub, i)

\* Python: s.find(sub), 0-based, -1 when absent
PyFind(s, sub) ==
  LET occ == Occurrences(s, sub)
  IN IF occ = {} THEN -1
     ELSE (CHOOSE i \in occ : \A j \in occ : i <= j) - 1

\* Python: s.rfind(sub), 0-based, -1 when absent
PyRFind(s, sub) ==
  LET occ == Occurrences(s, sub)
  IN IF occ = {} THEN -1
     ELSE (CHOOSE i \in occ : \A j \in occ : j <= i) - 1

\* Python: s.split(c) for a one-character separator c: the pieces between
\* consecutive occurrences of c
Split(s, c) ==
  LET seps == { i \in 1..Len(s) : s[i] = c }
      n == Cardinality(seps)
      pos(k) == IF k = 0 THEN 0
                ELSE IF k = n + 1 THEN Len(s) + 1
                ELSE CHOOSE i \in seps : Cardinality({ j \in seps : j <= i }) = k
  IN [k \in 1..(n + 1) |-> Slice(s, pos(k - 1) + 1, pos(k) - 1)]

\* offset (0-based) of the first character of s, at or after offset from,
\* that belongs to the set cs; Len(s) when there is none
FirstOf(s, cs, from) ==
  LET hits == { i \in (from + 1)..Len(s) : s[i] \in cs }
  IN IF hits = {} THEN Len(s)
     ELSE (CHOOSE i \in hits : \A j \in hits : i <= j) - 1

Digits == {"0", "1", "2", "3", "4", "5", "6", "7", "8", "9"}
HexDigits == Digits \cup {"a", "b", "c", "d", "e", "f", "A", "B", "C", "D", "E", "F"}
Letters ==
  {"a", "b", "c", "d", "e", "f", "g", "h", "i", "j", "k", "l", "m",
   "n", "o", "p", "q", "r", "s", "t", "u", "v", "w", "x", "y", "z",
   "A", "B", "C", "D", "E", "F", "G", "H", "I", "J", "K", "L", "M",
   "N", "O", "P", "Q", "R", "S", "T", "U", "V", "W", "X", "Y", "Z"}
\* urllib.parse.scheme_chars
SchemeChars == Letters \cup Digits \cup {"+", "-", "."}

DigitVal(c) ==
  CASE c = "0" -> 0 [] c = "1" -> 1 [] c = "2" -> 2 [] c = "3" -> 3
    [] c = "4" -> 4 [] c = "5" -> 5 [] c = "6" -> 6 [] c = "7" -> 7
    [] c = "8" -> 8 [] c = "9" -> 9

\* int(s) for a string of one to three decimal digits
DecVal(s) ==
  CASE Len(s) = 1 -> DigitVal(s[1])
    [] Len(s) = 2 -> 10 * DigitVal(s[1]) + DigitVal(s[2])
    [] Len(s) = 3 -> 100 * DigitVal(s[1]) + 10 * DigitVal(s[2]) + DigitVal(s[3])

(***************************************************************************)
(* ipaddress.ip_address(s): does s parse as an IPv4 or IPv6 literal?       *)
(***************************************************************************)
\* one octet of ipaddress.IPv4Address: decimal digits only, at most three,
\* no leading zero, value at most 255
ValidOctet(o) ==
  /\ Len(o) >= 1
  /\ Len(o) <= 3
  /\ \A k \in 1..Len(o) : o[k] \in Digits
  /\ (Len(o) > 1 => o[1] # "0")
  /\ DecVal(o) <= 255

ParsesIPv4(s) ==
  /\ ~Contains(s, <<"/">>)
  /\ LET octets == Split(s, ".")
     IN /\ Len(octets) = 4
        /\ \A k \in 1..4 : ValidOctet(octets[k])

\* one group of ipaddress.IPv6Address: one to four hexadecimal digits
ValidHextet(h) ==
  /\ Len(h) >= 1
  /\ Len(h) <= 4
  /\ \A k \in 1..Len(h) : h[k] \in HexDigits

ParsesIPv6(s) ==
  /\ ~Contains(s, <<"/">>)
  /\ LET raw == Split(s, ":")
         last == raw[Len(raw)]
         embedded == Len(raw) >= 3 /\ Contains(last, <<".">>)
         \* an embedded dotted quad is replaced by two groups
         parts == IF embedded
                  THEN Slice(raw, 1, Len(raw) - 1) \o << <<"0">>, <<"0">> >>
                  ELSE raw
         n == Len(parts)
         skips == { i \in 2..(n - 1) : Len(parts[i]) = 0 }
      IN /\ Len(raw) >= 3
         /\ (embedded => ParsesIPv4(last))
         /\ n <= 9
         /\ Cardinality(skips) <= 1
         /\ IF skips # {}
            THEN LET skip == CHOOSE i \in skips : TRUE
                     hi0 == skip - 1
                     lo0 == n - skip
                     hi == IF Len(parts[1]) = 0 THEN hi0 - 1 ELSE hi0
                     lo == IF Len(parts[n]) = 0 THEN lo0 - 1 ELSE lo0
                 IN /\ (Len(parts[1]) = 0 => hi = 0)
                    /\ (Len(parts[n]) = 0 => lo = 0)
                    /\ 8 - (hi + lo) >= 1
                    /\ \A k \in 1..hi : ValidHextet(parts[k])
                    /\ \A k \in (n - lo + 1)..n : ValidHextet(parts[k])
            ELSE /\ n = 8
                 /\ \A k \in 1..n : ValidHextet(parts[k])

ip_address(s) == ParsesIPv4(s) \/ ParsesIPv6(s)

(***************************************************************************)
(* urllib.parse.urlparse(url): scheme, netloc and path, or ValueError.     *)
(***************************************************************************)
urlparse(url) ==
  LET colon == PyFind(url, <<":">>)
      hasScheme == /\ colon > 0
                   /\ url[1] \in Letters
                   /\ \A k \in 1..colon : url[k] \in SchemeChars
      scheme == IF hasScheme THEN Slice(url, 1, colon) ELSE <<>>
      rest1 == IF hasScheme THEN Slice(url, colon + 2, Len(url)) ELSE url
      hasNetloc == OccursAt(rest1, <<"/", "/">>, 1)
      delim == FirstOf(rest1, {"/", "?", "#"}, 2)
      netloc == IF hasNetloc THEN Slice(rest1, 3, delim) ELSE <<>>
      rest2 == IF hasNetloc THEN Slice(rest1, delim + 1, Len(rest1)) ELSE rest1
      open == Contains(netloc, <<"[">>)
      close == Contains(netloc, <<"]">>)
      noFrag == Slice(rest2, 1, FirstOf(rest2, {"#"}, 0))
      path == Slice(noFrag, 1, FirstOf(noFrag, {"?"}, 0))
  IN [raises |-> (open /\ ~close) \/ (close /\ ~open),
      scheme |-> scheme, netloc |-> netloc, path |-> path]

\* ParseResult.hostname: netloc without userinfo, brackets and port
hostname(netloc) ==
  LET at == PyRFind(netloc, <<"@">>)
      hostinfo == IF at = -1 THEN netloc ELSE Slice(netloc, at + 2, Len(netloc))
      open == PyFind(hostinfo, <<"[">>)
      bracketed == Slice(hostinfo, open + 2, Len(hostinfo))
  IN IF open # -1
     THEN Slice(bracketed, 1, FirstOf(bracketed, {"]"}, 0))
     ELSE Slice(hostinfo, 1, FirstOf(hostinfo, {":"}, 0))

W_https ==
  <<"h", "t", "t", "p", "s">>

shortening_services ==
  { <<"b", "i", "t", ".", "l", "y">>,
    <<"g", "o", "o", ".", "g", "l">>,
    <<"s", "h", "o", "r", "t", "e", ".", "s", "t">>,
    <<"x", ".", "c", "o">>,
    <<"o", "w", ".", "l", "y">>,
    <<"t", ".", "c", "o">>,
    <<"t", "i", "n", "y", "u", "r", "l">>,
    <<"i", "s", ".", "g", "d">>,
    <<"c", "l", "i", ".", "g", "s">>,
    <<"t", "r", ".", "i", "m">>,
    <<"j", ".", "m", "p">>,
    <<"u", ".", "t", "o">>,
    <<"q", "r", ".", "a", "e">>,
    <<"p", "o", ".", "s", "t">>,
    <<"b", "c", ".", "v", "c">>,
    <<"c", "u", "t", "t", ".", "u", "s">>,
    <<"y", "o", "u", "r", "l", "s", ".", "o", "r", "g">>,
    <<"p", "r", "e", "t", "t", "y", "l", "i", "n", "k", "p", "r", "o", ".", "c", "o", "m">>,
    <<"v", ".", "g", "d">>,
    <<"l", "i", "n", "k", ".", "z", "i", "p", ".", "n", "e", "t">> }

(***************************************************************************)
(* Address bar features.                                                   *)
(***************************************************************************)
LengthThreshold == 54
RedirectionOffset == 6

havingIP(url) == IF ip_address(url) THEN 1 ELSE 0

haveAtSign(url) == IF Contains(url, <<"@">>) THEN 1 ELSE 0

getLength(url) == IF Len(url) >= LengthThreshold THEN 1 ELSE 0

\* number of non-empty segments of the parsed path
getDepth(url) ==
  LET s == Split(urlparse(url).path, "/")
  IN Cardinality({ k \in 1..Len(s) : Len(s[k]) > 0 })

redirection(url) == IF PyRFind(url, <<"/", "/">>) > RedirectionOffset THEN 1 ELSE 0

httpDomain(url) == IF Contains(urlparse(url).netloc, W_https) THEN 1 ELSE 0

tinyURL(url) == IF \E p \in shortening_services : Contains(url, p) THEN 1 ELSE 0

prefixSuffix(url) == IF Contains(urlparse(url).netloc, <<"-">>) THEN 1 ELSE 0

\* features.py lines 180-187: the eight address bar features, in order;
\* getDepth, httpDomain and prefixSuffix call urlparse outside any try block
LexicalRaises(url) == urlparse(url).raises

LexicalFeatures(url) ==
  <<havingIP(url), haveAtSign(url), getLength(url), getDepth(url),
    redirection(url), httpDomain(url), tinyURL(url), prefixSuffix(url)>>

(***************************************************************************)
(* Domain based features.                                                  *)
(*                                                                         *)
(* A point in time is an integer number of ticks, TicksPerDay ticks to a   *)
(* day, so that timedelta.days (a floor) is visible.  A date field of a    *)
(* whois record is None, a datetime, a string (matching '%Y-%m-%d' or      *)
(* not) or a list of such values.                                          *)
(***************************************************************************)
TicksPerDay == 2
RankThreshold == 100000
DaysPerMonth == 30
MonthsThreshold == 6

NoneVal == [k |-> "none"]
DateTime(t) == [k |-> "dt", t |-> t]
DateStr(t) == [k |-> "str", ok |-> TRUE, t |-> t]
BadStr == [k |-> "str", ok |-> FALSE, t |-> 0]
ListOf(items) == [k |-> "list", items |-> items]

\* Python truthiness of a date field
Truthy(v) ==
  CASE v.k = "none" -> FALSE
    [] v.k = "list" -> Len(v.items) > 0
    [] OTHER -> TRUE

\* datetime.strptime(str(v), '%Y-%m-%d'): only a well-formed date string
\* converts; str() of None, of a datetime or of a list does not match
StrptimeRaises(v) == ~(v.k = "str" /\ v.ok)
Strptime(v) == DateTime(v.t)

\* v[0] when v is a list, else v
FirstIfList(v) == IF v.k = "list" THEN v.items[1] ELSE v

\* timedelta.days of (a - b), then abs()
AbsDays(a, b) ==
  LET d == (a - b) \div TicksPerDay
  IN IF d < 0 THEN -d ELSE d

\* a lookup that raised
Failure == [k |-> "fail"]
Rank(n) == [k |-> "rank", rank |-> n]
Record(c, e) == [k |-> "rec", creation_date |-> c, expiration_date |-> e]

\* web_traffic: the outcome of the rank lookup is "fail" (any exception) or
\* the rank found in the reply
web_traffic(outcome) ==
  IF outcome = Failure THEN 1
  ELSE IF outcome.rank < RankThreshold THEN 1 ELSE 0

domainAge(domain_name) ==
  LET c0 == domain_name.creation_date
      e0 == domain_name.expiration_date
      conv == c0.k = "str" \/ e0.k = "str"
      c1 == IF conv THEN Strptime(c0) ELSE c0
      e1 == IF conv THEN Strptime(e0) ELSE e0
      c2 == FirstIfList(c1)
      e2 == FirstIfList(e1)
  IN IF domain_name = NoneVal THEN 1
     ELSE IF conv /\ (StrptimeRaises(c0) \/ StrptimeRaises(e0)) THEN 1
     ELSE IF ~Truthy(c1) \/ ~Truthy(e1) THEN 1
     ELSE IF c2.k # "dt" \/ e2.k # "dt" THEN 1
     ELSE IF AbsDays(e2.t, c2.t) < MonthsThreshold * DaysPerMonth THEN 1 ELSE 0

domainEnd(domain_name, today) ==
  LET e0 == domain_name.expiration_date
      e1 == IF e0.k = "str" THEN Strptime(e0) ELSE e0
      e2 == FirstIfList(e1)
  IN IF domain_name = NoneVal THEN 1
     ELSE IF e0.k = "str" /\ StrptimeRaises(e0) THEN 1
     ELSE IF ~Truthy(e1) THEN 1
     ELSE IF e2.k # "dt" THEN 1
     ELSE IF AbsDays(e2.t, today) < MonthsThreshold * DaysPerMonth THEN 0 ELSE 1

(***************************************************************************)
(* HTML and JavaScript features.  A response is the sentinel Absent (the   *)
(* empty string of the code) or a record with the body text and the        *)
(* length of the redirect history.                                         *)
(***************************************************************************)
Absent == [k |-> "absent"]
Fetched(text, history) == [k |-> "fetched", text |-> text, history |-> history]

IframeClass ==
  <<"<", "i", "f", "r", "a", "m", "e", ">", "|", "<", "f", "r", "a", "m", "e", "B", "o", "r", "d", "e", "r", ">">>

W_scriptOpen ==
  <<"<", "s", "c", "r", "i", "p", "t", ">">>

W_onmouseover ==
  <<"o", "n", "m", "o", "u", "s", "e", "o", "v", "e", "r">>

W_scriptClose ==
  <<"<", "/", "s", "c", "r", "i", "p", "t", ">">>

W_event ==
  <<"e", "v", "e", "n", "t">>

W_button ==
  <<"b", "u", "t", "t", "o", "n">>

W_eq ==
  <<"=", "=">>

\* re.findall(r"[<iframe>|<frameBorder>]", text): the pattern is one
\* character class, so any single character of the class matches
IframeMatches(text) ==
  \E i \in 1..Len(text) : text[i] \in { IframeClass[j] : j \in 1..Len(IframeClass) }

\* the characters s[i..j] contain no newline ('.' does not match one)
NoNewline(s, i, j) == \A k \in i..j : s[k] # "\n"

\* re.findall("<script>.+onmouseover.+</script>", text)
MouseOverMatches(text) ==
  \E i \in 1..Len(text) :
    /\ OccursAt(text, W_scriptOpen, i)
    /\ \E j \in (i + Len(W_scriptOpen) + 1)..Len(text) :
         /\ OccursAt(text, W_onmouseover, j)
         /\ \E k \in (j + Len(W_onmouseover) + 1)..Len(text) :
              /\ OccursAt(text, W_scriptClose, k)
              /\ NoNewline(text, i, k)

\* s starts at i with an optional space; the position after it
SkipSpace(s, i) == IF i <= Len(s) /\ s[i] = " " THEN {i, i + 1} ELSE {i}

\* re.findall(r"event.button ?== ?2", text)
RightClickMatches(text) ==
  \E i \in 1..Len(text) :
    /\ OccursAt(text, W_event, i)
    /\ i + Len(W_event) <= Len(text)
    /\ text[i + Len(W_event)] # "\n"
    /\ OccursAt(text, W_button, i + Len(W_event) + 1)
    /\ \E a \in SkipSpace(text, i + Len(W_event) + 1 + Len(W_button)) :
         /\ OccursAt(text, W_eq, a)
         /\ \E b \in SkipSpace(text, a + Len(W_eq)) : OccursAt(text, <<"2">>, b)

iframe(response) ==
  IF response = Absent THEN 1
  ELSE IF IframeMatches(response.text) THEN 0 ELSE 1

\* mouseOver treating a missing response as "nothing found"
mouseOverAbsentZero(response) ==
  IF response = Absent THEN 0
  ELSE IF MouseOverMatches(response.text) THEN 1 ELSE 0

mouseOver(response) ==
  IF response = Absent THEN 1
  ELSE IF MouseOverMatches(response.text) THEN 1 ELSE 0

rightClick(response) ==
  IF response = Absent THEN 1
  ELSE IF RightClickMatches(response.text) THEN 0 ELSE 1

\* forwarding returning the length of the chain instead of a flag
forwardingCount(response) ==
  IF response = Absent THEN 1 ELSE response.history

\* forwarding with the comparison off by one
forwardingOffByOne(response) ==
  IF response = Absent THEN 1
  ELSE IF response.history < 2 THEN 0 ELSE 1

forwarding(response) ==
  IF response = Absent THEN 1
  ELSE IF response.history <= 2 THEN 0 ELSE 1

(***************************************************************************)
(* Inputs: URLs, request bodies, whois records, ranks and responses.       *)
(***************************************************************************)
MaxHistory == 3
LongPathLen == 50

SchemeHttp ==
  <<"h", "t", "t", "p", ":", "/", "/">>

SchemeHttps ==
  <<"h", "t", "t", "p", "s", ":", "/", "/">>

HostPlain ==
  <<"a", ".", "c", "o", "m">>

HostIPv4 ==
  <<"1", "9", "2", ".", "1", "6", "8", ".", "0", ".", "1">>

HostShort ==
  <<"b", "i", "t", ".", "l", "y">>

HostSpoof ==
  <<"h", "t", "t", "p", "s", "-", "a", ".", "c", "o">>

HostUser ==
  <<"u", "@", "a", ".", "c", "o", "m">>

HostOpenBracket ==
  <<"[">>

HostIPv6 ==
  <<"[", ":", ":", "1", "]">>

PathLogin ==
  <<"/", "l", "o", "g", "i", "n">>

PathTwo ==
  <<"/", "x", "/", "y", "/">>

PathSlashes ==
  <<"/", "/", "b">>

PathQuery ==
  <<"/", "x", "?", "q", "/", "r", "#", "f", "/", "g">>

BodyPlain ==
  <<"x", "y", "z">>

BodyHello ==
  <<"h", "e", "l", "l", "o">>

BodyIframe ==
  <<"<", "i", "f", "r", "a", "m", "e", ">">>

BodyMouse ==
  <<"<", "s", "c", "r", "i", "p", "t", ">", "x", " ", "o", "n", "m", "o", "u", "s", "e", "o", "v", "e", "r", " ", "y", "<", "/", "s", "c", "r", "i", "p", "t", ">">>

BodyMouseNL ==
  <<"<", "s", "c", "r", "i", "p", "t", ">", "\n", "o", "n", "m", "o", "u", "s", "e", "o", "v", "e", "r", " ", "y", "<", "/", "s", "c", "r", "i", "p", "t", ">">>

BodyClick ==
  <<"e", "v", "e", "n", "t", ".", "b", "u", "t", "t", "o", "n", "=", "=", "2">>

BodyClickSp ==
  <<"e", "v", "e", "n", "t", "_", "b", "u", "t", "t", "o", "n", " ", "=", "=", " ", "2">>

LongPath == [i \in 1..LongPathLen |-> IF i = 1 THEN "/" ELSE "x"]

Schemes == {<<>>, SchemeHttp, SchemeHttps}
Hosts == {HostPlain, HostIPv4, HostShort, HostSpoof, HostUser, HostOpenBracket, HostIPv6}
Paths == {<<>>, PathLogin, PathTwo, PathSlashes, PathQuery, LongPath}
Urls == { s \o h \o p : s \in Schemes, h \in Hosts, p \in Paths }

\* the parsed JSON body of the request: no JSON at all, null, an array, or
\* an object whose "url" member is missing, null or a string
UrlMembers == {[k |-> "missing"], [k |-> "null"]} \cup { [k |-> "str", s |-> u] : u \in Urls \cup {<<>>} }
Requests ==
  {[k |-> "nojson"], [k |-> "null"], [k |-> "array"]}
    \cup { [k |-> "object", url |-> m] : m \in UrlMembers }

HalfYear == MonthsThreshold * DaysPerMonth * TicksPerDay
CreationDates ==
  {NoneVal, DateTime(0), DateStr(0), BadStr, ListOf(<<DateTime(0)>>)}
ExpirationDates ==
  {NoneVal, DateTime(HalfYear - 1), DateTime(HalfYear + TicksPerDay),
   DateStr(HalfYear + TicksPerDay), ListOf(<<>>), ListOf(<<DateTime(HalfYear)>>),
   ListOf(<<DateStr(HalfYear)>>)}
WhoisRecords ==
  { Record(c, e) : c \in CreationDates, e \in ExpirationDates }
WhoisOutcomes == {Failure} \cup WhoisRecords
Todays == {0, 1}
RankOutcomes == {Failure, Rank(RankThreshold - 1), Rank(RankThreshold)}
Bodies ==
  {<<>>, BodyPlain, BodyHello, BodyIframe, BodyMouse, BodyMouseNL, BodyClick, BodyClickSp}
FetchOutcomes == {Absent} \cup { Fetched(b, n) : b \in Bodies, n \in 0..MaxHistory }

(***************************************************************************)
(* The request handler as a state machine.  pc is the position of the      *)
(* handler: "idle" before a request, "whois" / "traffic" / "fetch" while   *)
(* the respective network call is outstanding, "score" when                *)
(* featureExtraction has returned, "done" when the response has been       *)
(* produced.                                                               *)
(***************************************************************************)
\* whois_outcome records how the whois lookup of this request ended:
\* "none" (not yet), "ok" or "fail"
VARIABLES pc, data, url, features, dns, domain_name, response, result,
          whois_outcome

vars == <<pc, data, url, features, dns, domain_name, response, result,
          whois_outcome>>

NoResult == [status |-> 0]
Error(status, msg) == [status |-> status, error |-> msg]

Init ==
  /\ pc = "idle"
  /\ data = [k |-> "nojson"]
  /\ url = <<>>
  /\ features = <<>>
  /\ dns = 0
  /\ domain_name = NoneVal
  /\ response = Absent
  /\ result = NoResult
  /\ whois_outcome = "none"

\* sum(f) for a list of natural numbers: one pair <<i, j>> per unit of f[i]
Sum(f) ==
  Cardinality(UNION { { <<i, j>> : j \in 1..f[i] } : i \in 1..Len(f) })

\* the threshold taken inclusively
AboveHalfInclusive(num, den) == 2 * num >= den

\* phishing_score > 0.5, with phishing_score = num / den
AboveHalf(num, den) == 2 * num > den

\* app.py lines 19-28: the classification built from the feature vector;
\* the probability sum / len is kept as the exact fraction num / den
Classification(u, f) ==
  [status |-> 200,
   url |-> u,
   is_phishing |-> AboveHalf(Sum(f), Len(f)),
   probability |-> [num |-> Sum(f), den |-> Len(f)],
   features |-> f]

\* request.get_json() either raises (unsupported media type, bad JSON) or
\* returns None when the body carries no JSON; None and a list have no get()
GetFaults(d) ==
  CASE d.k = "nojson" -> {"415 Unsupported Media Type", "400 Bad Request",
                          "'NoneType' object has no attribute 'get'"}
    [] d.k = "null" -> {"'NoneType' object has no attribute 'get'"}
    [] d.k = "array" -> {"'list' object has no attribute 'get'"}
    [] OTHER -> {}

\* `not url` for the value of data.get("url")
NotUrl(m) == m.k \in {"missing", "null"} \/ (m.k = "str" /\ Len(m.s) = 0)

\* app.py lines 13-18 and features.py lines 177-192: read the request,
\* reject a missing url, else enter featureExtraction, which computes the
\* address bar features and issues the whois lookup; a ValueError of
\* urlparse propagates to the except clause of predict
Predict ==
  /\ pc = "idle"
  /\ \E d \in Requests :
       /\ data' = d
       /\ IF GetFaults(d) # {}
          THEN /\ \E msg \in GetFaults(d) : result' = Error(500, msg)
               /\ pc' = "done"
               /\ UNCHANGED <<url, features>>
          ELSE IF NotUrl(d.url)
          THEN /\ result' = Error(400, "No URL provided")
               /\ pc' = "done"
               /\ UNCHANGED <<url, features>>
          ELSE IF LexicalRaises(d.url.s)
          THEN /\ result' = Error(500, "Invalid IPv6 URL")
               /\ pc' = "done"
               /\ url' = d.url.s
               /\ features' = features
          ELSE /\ result' = result
               /\ pc' = "whois"
               /\ url' = d.url.s
               /\ features' = LexicalFeatures(d.url.s)
  /\ UNCHANGED <<dns, domain_name, response, whois_outcome>>

\* the except branch forgetting to set dns
DnsOfNeverSet(outcome) == 0

DnsOf(outcome) == IF outcome = Failure THEN 1 ELSE 0
DomainNameOf(outcome) == IF outcome = Failure THEN NoneVal ELSE outcome

\* features.py lines 199-200
AgeFeature(d, rec) == IF d = 1 THEN 1 ELSE domainAge(rec)
EndFeature(d, rec, today) == IF d = 1 THEN 1 ELSE domainEnd(rec, today)

\* features.py lines 192-198: the whois lookup returns or raises, DNS_Record
\* is appended and the traffic-rank request is issued
WhoisReturn ==
  /\ pc = "whois"
  /\ \E outcome \in WhoisOutcomes :
       /\ dns' = DnsOf(outcome)
       /\ domain_name' = DomainNameOf(outcome)
       /\ features' = Append(features, DnsOf(outcome))
       /\ whois_outcome' = IF outcome = Failure THEN "fail" ELSE "ok"
  /\ pc' = "traffic"
  /\ UNCHANGED <<data, url, response, result>>

\* features.py lines 198-204: the rank lookup returns or raises, Web_Traffic,
\* Domain_Age and Domain_End are appended and the GET is issued; domain_name
\* is not read after line 200
TrafficReturn ==
  /\ pc = "traffic"
  /\ \E outcome \in RankOutcomes : \E today \in Todays :
       features' = features \o <<web_traffic(outcome),
                                 AgeFeature(dns, domain_name),
                                 EndFeature(dns, domain_name, today)>>
  /\ domain_name' = NoneVal
  /\ pc' = "fetch"
  /\ UNCHANGED <<data, url, dns, response, result, whois_outcome>>

\* features.py lines 203-213: the GET returns or raises (timeout included),
\* the four content features are appended and the vector is returned
FetchReturn ==
  /\ pc = "fetch"
  /\ \E r \in FetchOutcomes :
       /\ response' = r
       /\ features' = features \o <<iframe(r), mouseOver(r), rightClick(r), forwarding(r)>>
  /\ pc' = "score"
  /\ UNCHANGED <<data, url, dns, domain_name, result, whois_outcome>>

\* app.py lines 19-28
Respond ==
  /\ pc = "score"
  /\ result' = Classification(url, features)
  /\ pc' = "done"
  /\ UNCHANGED <<data, url, features, dns, domain_name, response, whois_outcome>>

Next ==
  \/ Predict
  \/ WhoisReturn
  \/ TrafficReturn
  \/ FetchReturn
  \/ Respond

Spec == Init /\ [][Next]_vars

\* Scheduling: the handler's own steps run; requests.get is called with
\* timeout=5, so the fetch always returns; the whois client is taken to
\* bound its own socket operations; urlopen is called without a timeout
\* and no default socket timeout is set, so the rank lookup need not return
FairSpec ==
  /\ Spec
  /\ WF_vars(WhoisReturn)
  /\ WF_vars(FetchReturn)
  /\ WF_vars(Respond)

TypeOK ==
  /\ pc \in {"idle", "whois", "traffic", "fetch", "score", "done"}
  /\ dns \in {0, 1}
  /\ Len(features) <= 16

(***************************************************************************)
(* Properties.                                                             *)
(***************************************************************************)
\* featureExtraction has returned its vector (held in features)
Returned == pc = "score" \/ (pc = "done" /\ result.status = 200)

\* the request carried a non-empty url string
HasUrl(d) == d.k = "object" /\ ~NotUrl(d.url)

Binary(f) == \A i \in 1..Len(f) : f[i] \in {0, 1}
Ones(f) == Cardinality({ i \in 1..Len(f) : f[i] = 1 })
Total16(f) ==
  f[1] + f[2] + f[3] + f[4] + f[5] + f[6] + f[7] + f[8]
    + f[9] + f[10] + f[11] + f[12] + f[13] + f[14] + f[15] + f[16]

W_iframe ==
  <<"<", "i", "f", "r", "a", "m", "e">>
W_frameBorder ==
  <<"f", "r", "a", "m", "e", "B", "o", "r", "d", "e", "r">>
\* the body contains an <iframe> tag or a frameBorder attribute
HasFrameMarker(text) == Contains(text, W_iframe) \/ Contains(text, W_frameBorder)

\* C1 as stated: whenever featureExtraction returns, the vector has 16
\* elements and every one of them, URL_Depth included, is 0 or 1.
C1_AllBinary ==
  Returned => (Len(features) = 16 /\ Binary(features))

\* C1 amended: whenever featureExtraction returns, the vector has 16
\* elements; every element other than URL_Depth (position 4) is 0 or 1 and
\* URL_Depth is the number of non-empty path segments, a natural number.
C1_BinaryExceptDepth ==
  Returned =>
    /\ Len(features) = 16
    /\ \A i \in (1..16) \ {4} : features[i] \in {0, 1}
    /\ features[4] \in Nat
    /\ features[4] = getDepth(url)

C1_DepthAboveOne ==
  /\ Returned
  /\ features[4] > 1
  /\ whois_outcome = "fail"
  /\ response # Absent
  /\ response.history > 2

\* C2: featureExtraction never raises: every request with a url string ends
\* with a complete 16-element vector.
C2_NeverRaises ==
  (pc = "done" /\ HasUrl(data)) =>
    (result.status = 200 /\ Len(result.features) = 16)

\* C3: every request that predict has started to handle eventually
\* completes with a response.
C3_EventuallyResponds == (pc # "idle") ~> (pc = "done")

\* C4: when the whois lookup fails, DNS_Record, Domain_Age and Domain_End
\* (positions 9, 11, 12) are all 1; when it succeeds, DNS_Record is 0.
C4_WhoisDefaults ==
  Returned =>
    /\ whois_outcome = "fail" =>
         (features[9] = 1 /\ features[11] = 1 /\ features[12] = 1)
    /\ whois_outcome = "ok" => features[9] = 0

C4_WhoisFailed ==
  /\ Returned
  /\ whois_outcome = "fail"
  /\ features[10] = 0
  /\ response # Absent

\* C5: when the content fetch fails, iFrame, Mouse_Over, Right_Click and
\* Web_Forwards (positions 13-16) are all 1 and the vector is complete.
C5_AbsentDefaults ==
  (Returned /\ response = Absent) =>
    /\ Len(features) = 16
    /\ \A i \in 13..16 : features[i] = 1

C5_FetchFailed ==
  /\ Returned
  /\ response = Absent
  /\ whois_outcome = "ok"
  /\ features[10] = 0

\* C6 as stated: for a fetched response, Web_Forwards is 0 if the redirect
\* chain is longer than 2 and 1 otherwise.
C6_ForwardingAsStated ==
  (Returned /\ response # Absent) =>
    features[16] = (IF response.history > 2 THEN 0 ELSE 1)

\* C6 amended: for a fetched response, Web_Forwards is 1 if the redirect
\* chain is longer than 2 and 0 otherwise.
C6_ForwardingAsCoded ==
  (Returned /\ response # Absent) =>
    features[16] = (IF response.history > 2 THEN 1 ELSE 0)

C6_LongChain ==
  /\ Returned
  /\ response # Absent
  /\ response.history > 2
  /\ features[16] = 1

\* C7: Have_IP is 1 exactly when the host component of the URL parses as
\* an IPv4 or IPv6 literal.
C7_HaveIPIffHostIsIP ==
  Returned =>
    (features[1] = 1 <=> ip_address(hostname(urlparse(url).netloc)))

\* C8: for a fetched response, iFrame is 0 if the body contains an iframe
\* or frame-border marker and 1 otherwise.
C8_IframeByMarker ==
  (Returned /\ response # Absent) =>
    features[13] = (IF HasFrameMarker(response.text) THEN 0 ELSE 1)

\* the url is absent from the request: no JSON object, or no url value
UrlAbsent(d) == ~HasUrl(d)

\* C9: predict answers 400 whenever url is absent from the request, 500
\* only with a failure description, and otherwise the complete
\* classification with all 16 features.
C9_Boundary ==
  pc = "done" =>
    /\ UrlAbsent(data) => result.status = 400
    /\ result.status \in {200, 400, 500}
    /\ result.status = 200 =>
         (result.url = url /\ Len(result.features) = 16)

\* C10 as stated: probability is the mean of the 16 elements, the verdict
\* is true iff probability > 0.5, all zeros give 0.0 and false, all ones
\* give 1.0 and true, and any vector with exactly 8 ones gives 0.5 and false.
C10_ScoreAsStated ==
  (pc = "done" /\ result.status = 200) =>
    LET f == result.features
        p == result.probability
    IN /\ p.num = Total16(f) /\ p.den = 16
       /\ result.is_phishing <=> (2 * p.num > p.den)
       /\ (\A i \in 1..16 : f[i] = 0) => (p.num = 0 /\ ~result.is_phishing)
       /\ (\A i \in 1..16 : f[i] = 1) => (p.num = p.den /\ result.is_phishing)
       /\ Ones(f) = 8 => (2 * p.num = p.den /\ ~result.is_phishing)

\* C10 amended: as stated, except that the last case is restricted to
\* vectors whose elements are all 0 or 1: such a vector with exactly 8 ones
\* gives 0.5 and false.
C10_ScoreBinary ==
  (pc = "done" /\ result.status = 200) =>
    LET f == result.features
        p == result.probability
    IN /\ p.num = Total16(f) /\ p.den = 16
       /\ result.is_phishing <=> (2 * p.num > p.den)
       /\ (\A i \in 1..16 : f[i] = 0) => (p.num = 0 /\ ~result.is_phishing)
       /\ (\A i \in 1..16 : f[i] = 1) => (p.num = p.den /\ result.is_phishing)
       /\ (Binary(f) /\ Ones(f) = 8) => (2 * p.num = p.den /\ ~result.is_phishing)

C10_EightOnes ==
  /\ pc = "done"
  /\ result.status = 200
  /\ Binary(result.features)
  /\ Ones(result.features) = 8
  /\ ~result.is_phishing

====
